---- MODULE Spec2Model ----
(***************************************************************************)
(* Model of the ingestion gateway of the transaction-monitoring pipeline:  *)
(* the idempotency middleware, the JWT/role middleware, the single and     *)
(* batch ingestion handlers, the Redis idempotency store and the           *)
(* asynchronous Kafka producer; downstream of the topic, the consumer of    *)
(* the processing service with its publisher, and the storage service;     *)
(* the processor's validation, risk assessment and business rules; the     *)
(* alert service with its consumer, handler and notifier.                  *)
(*                                                                         *)
(* Every HTTP request is a process with a position (pc).  The places where *)
(* a request touches shared state (the store lookup, the clock read and    *)
(* the producer call, the store write) are separate actions, so requests   *)
(* interleave exactly where the Go handlers can.                           *)
(*                                                                         *)
(* Time is a discrete clock `now`; the 24h TTL is TTL ticks of it.         *)
(* Fields of a transaction that no code path of the gateway inspects       *)
(* (currency, type, category, merchant, reference, metadata) are carried   *)
(* through unchanged by the code and are left out of the records.          *)
(***************************************************************************)
EXTENDS Integers, Sequences, FiniteSets, TLC

VARIABLES
    now,        \* the wall clock (time.Now), in ticks
    store,      \* Redis: idempotency key -> stored entry or NoEntry
    reqs,       \* the HTTP requests: position, contents, response, history
    sent,       \* messages WriteMessages has accepted, in call order
    inflight,   \* indices of sent not yet acknowledged or failed
    log,        \* the topic: messages the broker has acknowledged, in order
    lost,       \* indices of sent whose delivery failed (history)
    faults,     \* infrastructure faults (Redis, Kafka) injected so far
    offset,     \* processing consumer: messages of log read so far
    running,    \* processing consumer: the goroutines that have not ended
    processed,  \* messages the processing publisher's WriteMessages accepted
    saved,      \* storage consumer: messages of processed handled so far
    db,         \* storage: the rows of the transactions table
    raw,        \* processor: the raw transaction handed to ProcessTransaction
    outcomes,   \* processor: the processed events published for raw, in order
    webhookURL, \* alert service: the configured SLACK_WEBHOOK
    topic,      \* alert service: the messages of its input topic
    delivered,  \* alert consumer: messages of topic handed to the handler
    posts,      \* alert notifier: the POSTs made to the webhook (history)
    errlog      \* alert consumer: offsets logged as "handler error" (history)

\* The state of the gateway.
gateway == <<now, store, reqs, sent, inflight, log, lost, faults>>

\* The state of the processing and the storage consumer.
pipeline == <<offset, running, processed, saved, db>>

\* The state of the processor working on one raw transaction.
scoring == <<raw, outcomes>>

\* The state of the alert service.
alerting == <<webhookURL, topic, delivered, posts, errlog>>

\* The state of the stages downstream of the gateway.
downstream == <<offset, running, processed, saved, db, scoring, alerting>>

vars == <<now, store, reqs, sent, inflight, log, lost, faults,
          offset, running, processed, saved, db,
          raw, outcomes, webhookURL, topic, delivered, posts, errlog>>

----------------------------------------------------------------------------
(* Bounds *)

MaxTime  == 1       \* last clock tick
MaxBatch == 2       \* longest batch body
MaxFaults == 1      \* Redis/Kafka failures per behaviour
MaxItems == 3       \* longest batch body of SpecBatch (MaxBatch <= MaxItems)
MaxRuns == 2        \* calls of ProcessTransaction on one raw transaction
MaxEvents == 3      \* messages on the input topic of the alert service

(* Program constants *)

TTL == 1            \* 24*time.Hour, in clock ticks (one tick = 24h)

StatusOK                  == 200
StatusAccepted            == 202
StatusBadRequest          == 400
StatusUnauthorized        == 401
StatusForbidden           == 403
StatusInternalServerError == 500

----------------------------------------------------------------------------
(* Values *)

Req      == {1, 2}                \* the requests: a submission and a retry of
                                  \* it or a concurrent submission
Keys     == {"k1", "k2"}          \* idempotency keys; "" is the absent key
Accounts == {"A", "B"}            \* account identifiers; "" is absent
Users    == {"U"}                 \* user identifiers; "" is absent
Amounts  == {-5, 0, 50}

NoID     == ""                    \* the zero value of a transaction ID
NoBody   == [kind |-> "none"]

\* Bearer tokens: absent/misformatted header, a token that fails validation,
\* and valid tokens carrying one role each.
NoToken      == [kind |-> "none",    roles |-> {},          acct |-> ""]
InvalidToken == [kind |-> "invalid", roles |-> {},          acct |-> ""]
Auditor      == [kind |-> "valid",   roles |-> {"auditor"}, acct |-> "A"]
Teller       == [kind |-> "valid",   roles |-> {"teller"},  acct |-> "A"]
Admin        == [kind |-> "valid",   roles |-> {"admin"},   acct |-> "A"]

Tokens == {NoToken, InvalidToken, Auditor, Teller, Admin}

\* models.TransactionRequest after json decoding (absent fields are zero).
TransactionRequest ==
    [idempotency_key : Keys \cup {""}, account_id : Accounts \cup {""},
     user_id : Users \cup {""}, amount : Amounts]

\* The submissions batches are made of: they vary in the account.
BatchItems ==
    { it \in TransactionRequest :
        it.idempotency_key = "k1" /\ it.user_id = "U" /\ it.account_id # ""
        /\ it.amount = 50 }

SeqsUpTo(S, n) == UNION { [1..m -> S] : m \in 0..n }

\* Request bodies: one that does not decode into the type the route expects
\* (not JSON, an array for the single route, an object for the batch route),
\* one JSON object, a JSON array of objects.
Bodies ==
         { [kind |-> "bad"] }
    \cup { [kind |-> "obj", item |-> it] : it \in TransactionRequest }
    \cup { [kind |-> "list", items |-> its] :
              its \in SeqsUpTo(BatchItems, MaxBatch) }

Endpoints == {"single", "batch"}

\* Positions in sent: every request hands over at most MaxItems messages.
Offsets == 1..(Cardinality(Req) * MaxItems)

\* A request as the client sends it: route, Idempotency-Key header,
\* Authorization header, body.
Requests == [ep : Endpoints, key : Keys \cup {""}, token : Tokens, body : Bodies]

\* The well-formed submission and the well-formed request for each route.
GoodItem == [idempotency_key |-> "k1", account_id |-> "A", user_id |-> "U",
             amount |-> 50]

\* In how many fields a submission differs from GoodItem.
ItemDiff(it) ==
      (IF it.idempotency_key # GoodItem.idempotency_key THEN 1 ELSE 0)
    + (IF it.account_id # GoodItem.account_id THEN 1 ELSE 0)
    + (IF it.user_id # GoodItem.user_id THEN 1 ELSE 0)
    + (IF it.amount # GoodItem.amount THEN 1 ELSE 0)

RECURSIVE SumDiff(_)
SumDiff(its) == IF its = <<>> THEN 0
                ELSE ItemDiff(Head(its)) + SumDiff(Tail(its))

\* In how many places a request differs from the well-formed request of its
\* route (key k1, a token with a sufficient role, well-formed submissions).
Diff(q) ==
      (IF q.key # "k1" THEN 1 ELSE 0)
    + (IF q.token # (IF q.ep = "single" THEN Teller ELSE Admin) THEN 1 ELSE 0)
    + (CASE q.body.kind = "bad"  -> 1
         [] q.body.kind = "obj"  -> ItemDiff(q.body.item)
         [] q.body.kind = "list" -> SumDiff(q.body.items)
                                    + (IF Len(q.body.items) # 1 THEN 1 ELSE 0))

\* The requests the specifications send on a route: the well-formed request
\* and every request that differs from it in one place.
InputsOn(ep) ==
    { q \in Requests :
        /\ q.ep = ep
        /\ q.body.kind \in {"bad", IF ep = "single" THEN "obj" ELSE "list"}
        /\ Diff(q) <= 1 }

\* The request of test_unauthorized_access: no Authorization header, no
\* Idempotency-Key header, the body {"test": "data"}, which decodes into a
\* TransactionRequest of zero values.
UnauthorizedProbe ==
    [ep |-> "single", key |-> "", token |-> NoToken,
     body |-> [kind |-> "obj",
               item |-> [idempotency_key |-> "", account_id |-> "",
                         user_id |-> "", amount |-> 0]]]

\* Spec: both requests go to the single-submission route.
Inputs == InputsOn("single") \cup {UnauthorizedProbe}

\* SpecRoutes: request 1 goes to the single route, request 2 to the batch
\* route.
BatchInputs == InputsOn("batch")
AllInputs == Inputs \cup BatchInputs
RouteOf(r) == IF r = 1 THEN "single" ELSE "batch"

\* SpecBatch: one request to the batch route, with key k1, whose body is
\* not a list or a list of up to MaxItems submissions that vary in the amount.
ScenarioItems == { [GoodItem EXCEPT !.amount = a] : a \in Amounts }
ScenarioInputs ==
    { [ep |-> "batch", key |-> "k1", token |-> tk, body |-> b] :
        tk \in {Admin, Teller},
        b \in { [kind |-> "bad"] } \cup
              { [kind |-> "list", items |-> its] :
                   its \in SeqsUpTo(ScenarioItems, MaxItems) } }

\* SpecPipeline: well-formed submissions of a teller, which vary in the
\* idempotency key (the same in header and body), the account and the amount.
PipelineInputs ==
    { q \in Requests :
        /\ q.ep = "single" /\ q.key # "" /\ q.token = Teller
        /\ q.body.kind = "obj"
        /\ q.body.item.idempotency_key = q.key /\ q.body.item.account_id # ""
        /\ q.body.item.user_id # "" /\ q.body.item.amount # 0 }

----------------------------------------------------------------------------
(* HTTP responses *)

\* http.Error: a plain-text body.
TextBody(msg) == [kind |-> "text", text |-> msg]

\* json encoding of models.TransactionResponse (time stamp not modelled).
ResponseBody(id, status, message) ==
    [kind |-> "json", id |-> id, status |-> status, message |-> message]

\* json encoding of the batch handler's response map.
BatchBody(n) ==
    [kind |-> "json", status |-> "accepted",
     message |-> "Batch queued for processing", count |-> n]

\* What a handler leaves behind: the status code and body it wrote and the
\* kafka messages WriteMessages accepted.
Result(status, body, out) == [status |-> status, body |-> body, out |-> out]

----------------------------------------------------------------------------
(* auth: Claims *)

\* Claims.HasRole
HasRole(claims, role) == role \in claims.roles

\* Claims.HasAnyRole
HasAnyRole(claims, roles) == \E role \in roles : HasRole(claims, role)

----------------------------------------------------------------------------
(* redis: the idempotency store *)

Nil     == <<>>                                 \* nil []byte
NoEntry == [data |-> Nil, expires |-> 0]        \* redis.Nil

\* json.Marshal / json.Unmarshal of models.TransactionResponse
\* (time stamps are not modelled).
MarshalResponse(r) == <<"id", r.id, "status", r.status, "message", r.message>>
UnmarshalResponse(b) == ResponseBody(b[2], b[4], b[6])

\* Mutant of GetIdempotencyKey: entries never expire.
GetIdempotencyKey_NoExpiry(key) ==
    IF store[key] # NoEntry THEN store[key].data ELSE Nil

\* Client.GetIdempotencyKey on a reachable store: the stored bytes, or nil
\* when the key is absent or its TTL has run out.
GetIdempotencyKey(key) ==
    IF store[key] # NoEntry /\ now < store[key].expires
    THEN store[key].data ELSE Nil

\* Mutant of SetIdempotencyKey: the write is dropped.
SetIdempotencyKey_Dropped(key, value, ttl) == store

\* Client.SetIdempotencyKey on a reachable store.
SetIdempotencyKey(key, value, ttl) ==
    [store EXCEPT ![key] = [data |-> MarshalResponse(value), expires |-> now + ttl]]

----------------------------------------------------------------------------
(* publisher: the Kafka producer *)

\* The models.Transaction both handlers build from a decoded request.
Transaction(req, id) ==
    [ID |-> id, IdempotencyKey |-> req.idempotency_key,
     AccountID |-> req.account_id, UserID |-> req.user_id,
     Amount |-> req.amount, Status |-> "pending"]

\* generateTransactionID: "txn_" followed by the clock reading.
generateTransactionID(t) == "txn_" \o ToString(t)

\* Mutant of Publish: the message is keyed by the transaction ID.
Publish_KeyedByID(txn, r) ==
    [key     |-> txn.ID,
     value   |-> txn,
     headers |-> [idempotency_key |-> txn.IdempotencyKey, user_id |-> txn.UserID],
     req     |-> r, pos |-> 1]

\* Producer.Publish: the kafka.Message built for the transaction.
\* req and pos are history, not part of the message: the request being
\* served and the position of the submission in its body.
Publish(txn, r) ==
    [key     |-> txn.AccountID,
     value   |-> txn,
     headers |-> [idempotency_key |-> txn.IdempotencyKey, user_id |-> txn.UserID],
     req     |-> r, pos |-> 1]

\* Producer.PublishBatch: one kafka.Message per transaction, in order.
PublishBatch(txns, r) ==
    [i \in 1..Len(txns) |->
        [key     |-> txns[i].AccountID,
         value   |-> txns[i],
         headers |-> [idempotency_key |-> txns[i].IdempotencyKey,
                      user_id |-> txns[i].UserID],
         req     |-> r, pos |-> i]]

----------------------------------------------------------------------------
(* main: the handlers and the middleware chain *)

\* IngestTransactionHandler.  t is the clock reading of generateTransactionID,
\* werr tells whether WriteMessages returns an error.
IngestTransactionHandler(r, body, t, werr) ==
    IF body.kind # "obj"
    THEN Result(StatusBadRequest, TextBody("invalid JSON payload"), <<>>)
    ELSE LET req == body.item IN
         IF req.idempotency_key = "" \/ req.account_id = "" \/ req.user_id = ""
         THEN Result(StatusBadRequest, TextBody("missing required fields"), <<>>)
         ELSE LET txn == Transaction(req, generateTransactionID(t)) IN
              IF werr
              THEN Result(StatusInternalServerError,
                          TextBody("failed to enqueue transaction"), <<>>)
              ELSE Result(StatusAccepted,
                          ResponseBody(txn.ID, "accepted",
                                       "Transaction queued for processing"),
                          <<Publish(txn, r)>>)

\* Mutant of IngestBatchTransactionHandler: one item with a non-positive
\* amount rejects the whole batch.
IngestBatchTransactionHandler_Atomic(r, body, ts, werr) ==
    IF body.kind # "list"
    THEN Result(StatusBadRequest, TextBody("invalid JSON payload"), <<>>)
    ELSE LET reqs_ == body.items IN
         IF Len(reqs_) = 0
         THEN Result(StatusBadRequest, TextBody("empty batch"), <<>>)
         ELSE IF \E i \in 1..Len(reqs_) : reqs_[i].amount <= 0
         THEN Result(StatusBadRequest, TextBody("invalid batch item"), <<>>)
         ELSE LET transactions ==
                      [i \in 1..Len(reqs_) |->
                          Transaction(reqs_[i], generateTransactionID(ts[i]))]
              IN IF werr
                 THEN Result(StatusInternalServerError,
                             TextBody("failed to enqueue batch"), <<>>)
                 ELSE Result(StatusAccepted, BatchBody(Len(transactions)),
                             PublishBatch(transactions, r))

\* IngestBatchTransactionHandler.  ts[i] is the clock reading of the i-th
\* generateTransactionID call.
IngestBatchTransactionHandler(r, body, ts, werr) ==
    IF body.kind # "list"
    THEN Result(StatusBadRequest, TextBody("invalid JSON payload"), <<>>)
    ELSE LET reqs_ == body.items IN
         IF Len(reqs_) = 0
         THEN Result(StatusBadRequest, TextBody("empty batch"), <<>>)
         ELSE LET transactions ==
                      [i \in 1..Len(reqs_) |->
                          Transaction(reqs_[i], generateTransactionID(ts[i]))]
              IN IF werr
                 THEN Result(StatusInternalServerError,
                             TextBody("failed to enqueue batch"), <<>>)
                 ELSE Result(StatusAccepted, BatchBody(Len(transactions)),
                             PublishBatch(transactions, r))

\* The roles the route wiring in main requires.
RequiredRoles(ep) == IF ep = "single" THEN {"teller", "admin"} ELSE {"admin"}

\* The handler the route wiring in main puts innermost.
Handler(r, ep, body, ts, werr) ==
    IF ep = "single"
    THEN IngestTransactionHandler(r, body, ts[1], werr)
    ELSE IngestBatchTransactionHandler(r, body, ts, werr)

\* AuthMiddleware.RequireAnyRole / RequireRole around next.
RequireAnyRole(roles, token, next) ==
    IF ~HasAnyRole(token, roles)
    THEN Result(StatusForbidden, TextBody("Insufficient permissions"), <<>>)
    ELSE next

\* AuthMiddleware.RequireAuth around next.
RequireAuth(token, next) ==
    IF token.kind = "none"
    THEN Result(StatusUnauthorized, TextBody("Authentication required"), <<>>)
    ELSE IF token.kind = "invalid"
    THEN Result(StatusUnauthorized, TextBody("Invalid token"), <<>>)
    ELSE next

\* What IdempotencyMiddleware.Wrap calls as next.ServeHTTP:
\* RequireAuth(RequireAnyRole(...)(handler)).
Next_ServeHTTP(r, q, ts, werr) ==
    RequireAuth(q.token,
        RequireAnyRole(RequiredRoles(q.ep), q.token,
            Handler(r, q.ep, q.body, ts, werr)))

\* Mutant of CachedResponse: the transaction ID is not taken from the body.
CachedResponse_NoID(recorded) ==
    ResponseBody(NoID, "success", "Transaction processed")

\* The response IdempotencyMiddleware.Wrap caches for a 2xx reply with the
\* recorded body.
CachedResponse(recorded) ==
    ResponseBody(IF recorded.kind = "json" /\ "id" \in DOMAIN recorded
                 THEN recorded.id ELSE NoID,
                 "success", "Transaction processed")

----------------------------------------------------------------------------
(* processing-service: consumer, processor, publisher *)

\* The largest amount validateTransaction lets pass.
AmountLimit == 100000

\* The currencies and the transaction types validateTransaction lets pass.
ValidCurrencies == {"USD", "EUR", "GBP", "INR", "CAD", "AUD"}
ValidTypes == {"purchase", "transfer", "withdrawal", "deposit", "refund"}

\* json.Unmarshal of a message of the topic into models.RawTransaction.  The
\* gateway's events of this model leave currency and type out; the event is
\* taken to carry a currency and a type that pass validation.
RawTransaction(value) ==
    [ID |-> value.ID, IdempotencyKey |-> value.IdempotencyKey,
     AccountID |-> value.AccountID, UserID |-> value.UserID,
     Amount |-> value.Amount, Currency |-> "USD", Type |-> "purchase"]

\* A models.ValidationError (the message text follows from field and code).
ValidationError(field, code) == [Field |-> field, Code |-> code]

\* The errors a rule of validateTransaction appends when it is violated.
ErrorIf(violated, field, code) ==
    IF violated THEN <<ValidationError(field, code)>> ELSE <<>>

\* Mutant of validateTransaction: the currency is not checked.
validateTransaction_AnyCurrency(t) ==
    LET errors ==
            ErrorIf(t.AccountID = "", "account_id", "REQUIRED_FIELD")
         \o ErrorIf(t.UserID = "", "user_id", "REQUIRED_FIELD")
         \o ErrorIf(t.Amount <= 0, "amount", "INVALID_AMOUNT")
         \o ErrorIf(t.Amount > AmountLimit, "amount", "EXCEEDS_LIMIT")
         \o ErrorIf(t.Type \notin ValidTypes, "type", "INVALID_TYPE")
    IN  [IsValid |-> errors = <<>>, Errors |-> errors]

\* Processor.validateTransaction: the models.TransactionValidation, with the
\* errors in the order the rules are checked.
validateTransaction(t) ==
    LET errors ==
            ErrorIf(t.AccountID = "", "account_id", "REQUIRED_FIELD")
         \o ErrorIf(t.UserID = "", "user_id", "REQUIRED_FIELD")
         \o ErrorIf(t.Amount <= 0, "amount", "INVALID_AMOUNT")
         \o ErrorIf(t.Amount > AmountLimit, "amount", "EXCEEDS_LIMIT")
         \o ErrorIf(t.Currency \notin ValidCurrencies,
                    "currency", "INVALID_CURRENCY")
         \o ErrorIf(t.Type \notin ValidTypes, "type", "INVALID_TYPE")
    IN  [IsValid |-> errors = <<>>, Errors |-> errors]

\* Processor.formatValidationErrors: the "; "-joined string of the errors,
\* as the list of its parts; the empty list is the empty string.
formatValidationErrors(errors) ==
    [i \in 1..Len(errors) |-> errors[i].Field]

\* Processor.ProcessTransaction: the models.ProcessedTransaction it hands to
\* the publisher, valid or not.  Risk score, risk level and status decide
\* neither whether nor where nor in which order the event is published, and
\* are left out of the record.
ProcessTransaction(rawTxn) ==
    [ID |-> rawTxn.ID, IdempotencyKey |-> rawTxn.IdempotencyKey,
     AccountID |-> rawTxn.AccountID, UserID |-> rawTxn.UserID,
     Amount |-> rawTxn.Amount,
     IsValid |-> validateTransaction(rawTxn).IsValid]

\* Risk scores are in thousandths.  The weights assessRisk adds, the cap,
\* and the amount and the hours that count as risky.
HighAmount == 10000
LateFrom == 22
LateUntil == 6
HighAmountWeight == 300
LateNightWeight == 200
BlockedCountryWeight == 500
RiskyMerchantWeight == 400
ScoreCap == 1000

\* The scores at which assessRisk changes the risk level.
MediumFrom == 300
HighFrom == 600
CriticalFrom == 800

\* The scores applyBusinessRules and setFinalStatus compare with.
AutoApproveBelow == 300
AutoRejectAbove == 800
FlagAbove == 600

\* rand.Float64() * 0.1, a double in [0, 0.1): zero, a value in the middle,
\* and the largest double below 0.1.
RandomMax == 99
RandomRisk == {0, 50, RandomMax}

NoCountry == ""
DefaultCountry == "US"
BlockedCountries == {"XX", "YY"}
BlockedMerchants == {"blocked_merchant_1", "blocked_merchant_2"}

\* The merchant names of the model.
Merchants ==
    {"", "shop", "Crypto Exchange", "online gambling", "blocked_merchant_1"}

\* strings.ToLower, on the merchant names of the model.
ToLower(str) == IF str = "Crypto Exchange" THEN "crypto exchange" ELSE str

\* strings.Contains, on the lower-cased merchant names of the model.
Contains(str, substr) ==
    \/ str = "crypto exchange" /\ substr = "crypto"
    \/ str = "online gambling" /\ substr = "gambling"

\* Mutant of AddFloat: adding the largest random component always reaches
\* the next tenth.
AddFloat_RoundsUp(x, y) ==
    IF y = RandomMax THEN x + 100 ELSE x + y

\* riskScore += y in float64.  The double sum is the decimal sum except that
\* 0.2 + 0.4 is 0.6000000000000001, above the double 0.6, and that adding the
\* largest random component rounds up to the next tenth from 0.2, 0.4, 0.5,
\* 0.8 and 0.9 but stays below it from 0, 0.3 and 0.7.  A double just above
\* or below a tenth is one thousandth off it here.
AddFloat(x, y) ==
    IF y = 0 THEN x
    ELSE IF x = 200 /\ y = 400 THEN 601
    ELSE IF y = RandomMax /\ x \in {200, 400, 500, 800, 900} THEN x + 100
    ELSE x + y

\* Processor.enrichTransaction: the country comes from the metadata and
\* defaults to "US".
enrichTransaction(t) ==
    [t EXCEPT !.Country = IF t.Metadata.country # NoCountry
                          THEN t.Metadata.country
                          ELSE DefaultCountry]

\* The risk level assessRisk gives a score.
RiskLevelOf(riskScore) ==
    IF riskScore < MediumFrom THEN "low"
    ELSE IF riskScore < HighFrom THEN "medium"
    ELSE IF riskScore < CriticalFrom THEN "high"
    ELSE "critical"

\* Mutant of assessRisk: the score is not capped.
assessRisk_NoCap(t, randomRisk) ==
    LET amount   == IF t.Amount > HighAmount THEN HighAmountWeight ELSE 0
        hour     == IF t.Hour >= LateFrom \/ t.Hour <= LateUntil
                    THEN LateNightWeight ELSE 0
        country  == IF t.Country = "XX" \/ t.Country = "YY"
                    THEN BlockedCountryWeight ELSE 0
        merchant == IF \/ Contains(ToLower(t.Merchant), "gambling")
                       \/ Contains(ToLower(t.Merchant), "crypto")
                    THEN RiskyMerchantWeight ELSE 0
        sum      == AddFloat(AddFloat(AddFloat(AddFloat(AddFloat(0, amount),
                        hour), country), merchant), randomRisk)
    IN  [RiskScore |-> sum, RiskLevel |-> RiskLevelOf(sum)]

\* Processor.assessRisk: the models.RiskAssessment of an enriched
\* transaction; randomRisk is what rand.Float64() * 0.1 returned.
assessRisk(t, randomRisk) ==
    LET amount   == IF t.Amount > HighAmount THEN HighAmountWeight ELSE 0
        hour     == IF t.Hour >= LateFrom \/ t.Hour <= LateUntil
                    THEN LateNightWeight ELSE 0
        country  == IF t.Country = "XX" \/ t.Country = "YY"
                    THEN BlockedCountryWeight ELSE 0
        merchant == IF \/ Contains(ToLower(t.Merchant), "gambling")
                       \/ Contains(ToLower(t.Merchant), "crypto")
                    THEN RiskyMerchantWeight ELSE 0
        sum      == AddFloat(AddFloat(AddFloat(AddFloat(AddFloat(0, amount),
                        hour), country), merchant), randomRisk)
        riskScore == IF sum > ScoreCap THEN ScoreCap ELSE sum
    IN  [RiskScore |-> riskScore, RiskLevel |-> RiskLevelOf(riskScore)]

\* Mutant of applyBusinessRules: between the two thresholds only the merchant
\* is looked at.
applyBusinessRules_MerchantOnly(t) ==
    IF t.RiskScore < AutoApproveBelow
    THEN [t EXCEPT !.IsApproved = TRUE]
    ELSE IF t.RiskScore > AutoRejectAbove
    THEN [t EXCEPT !.IsApproved = FALSE,
                   !.RejectionReason =
                       <<"High risk score - automatic rejection">>]
    ELSE IF t.Merchant \in BlockedMerchants
    THEN [t EXCEPT !.IsApproved = FALSE,
                   !.RejectionReason = <<"Blocked country or merchant">>]
    ELSE [t EXCEPT !.IsApproved = TRUE]

\* Processor.applyBusinessRules.
applyBusinessRules(t) ==
    IF t.RiskScore < AutoApproveBelow
    THEN [t EXCEPT !.IsApproved = TRUE]
    ELSE IF t.RiskScore > AutoRejectAbove
    THEN [t EXCEPT !.IsApproved = FALSE,
                   !.RejectionReason =
                       <<"High risk score - automatic rejection">>]
    ELSE IF t.RiskScore >= AutoApproveBelow /\ t.RiskScore <= AutoRejectAbove
    THEN IF t.Country \in BlockedCountries \/ t.Merchant \in BlockedMerchants
         THEN [t EXCEPT !.IsApproved = FALSE,
                        !.RejectionReason = <<"Blocked country or merchant">>]
         ELSE [t EXCEPT !.IsApproved = TRUE]
    ELSE t

\* Mutant of setFinalStatus: a transaction that is not approved keeps the
\* status it has.
setFinalStatus_ApprovedOnly(t) ==
    IF t.IsValid /\ t.IsApproved /\ t.RiskScore > FlagAbove
    THEN [t EXCEPT !.Status = "flagged"]
    ELSE IF t.IsValid /\ t.IsApproved THEN [t EXCEPT !.Status = "approved"]
    ELSE t

\* Processor.setFinalStatus.
setFinalStatus(t) ==
    IF ~t.IsValid THEN [t EXCEPT !.Status = "rejected"]
    ELSE IF t.IsApproved /\ t.RiskScore > FlagAbove
    THEN [t EXCEPT !.Status = "flagged"]
    ELSE IF t.IsApproved THEN [t EXCEPT !.Status = "approved"]
    ELSE [t EXCEPT !.Status = "rejected"]

\* The models.ProcessedTransaction ProcessTransaction starts from: the raw
\* transaction with the zero values of the processing results.
NewProcessed(rawTxn) ==
    [ID |-> rawTxn.ID, AccountID |-> rawTxn.AccountID,
     UserID |-> rawTxn.UserID, Amount |-> rawTxn.Amount,
     Currency |-> rawTxn.Currency, Type |-> rawTxn.Type,
     Merchant |-> rawTxn.Merchant, Hour |-> rawTxn.Hour,
     Metadata |-> rawTxn.Metadata,
     Status |-> "", RiskScore |-> 0, RiskLevel |-> "",
     IsApproved |-> FALSE, RejectionReason |-> <<>>,
     IsValid |-> FALSE, Country |-> NoCountry]

\* What the assessment writes into the transaction.
WithRisk(t, riskAssessment) ==
    [t EXCEPT !.RiskScore = riskAssessment.RiskScore,
              !.RiskLevel = riskAssessment.RiskLevel]

\* Mutant of ProcessedTransaction: the transaction is enriched before it is
\* validated.
ProcessedTransaction_EnrichFirst(rawTxn, randomRisk) ==
    LET validation == validateTransaction(rawTxn)
        enriched == enrichTransaction([NewProcessed(rawTxn)
                                          EXCEPT !.IsValid = validation.IsValid])
    IN  IF ~validation.IsValid
        THEN [enriched EXCEPT
                 !.Status = "rejected",
                 !.RejectionReason = formatValidationErrors(validation.Errors)]
        ELSE setFinalStatus(applyBusinessRules(
                 WithRisk(enriched, assessRisk(enriched, randomRisk))))

\* Processor.ProcessTransaction on a raw transaction with all the fields
\* the processor reads: the models.ProcessedTransaction it hands to the
\* publisher.  randomRisk is what rand.Float64() * 0.1 returns.
ProcessedTransaction(rawTxn, randomRisk) ==
    LET validation == validateTransaction(rawTxn)
        processedTxn == [NewProcessed(rawTxn)
                            EXCEPT !.IsValid = validation.IsValid]
        enriched == enrichTransaction(processedTxn)
    IN  IF ~validation.IsValid
        THEN [processedTxn EXCEPT
                 !.Status = "rejected",
                 !.RejectionReason = formatValidationErrors(validation.Errors)]
        ELSE setFinalStatus(applyBusinessRules(
                 WithRisk(enriched, assessRisk(enriched, randomRisk))))

\* A raw transaction that passes validation and triggers no risk factor.
GoodRaw ==
    [ID |-> "t1", AccountID |-> "A", UserID |-> "U", Amount |-> 50,
     Currency |-> "USD", Type |-> "purchase", Merchant |-> "shop",
     Hour |-> 12, Metadata |-> [country |-> NoCountry]]

\* Mutant of PublishProcessedTransaction: the message is keyed by the
\* transaction ID.
PublishProcessedTransaction_KeyedByID(transaction, i) ==
    [key     |-> transaction.ID,
     value   |-> transaction,
     headers |-> [idempotency_key |-> transaction.IdempotencyKey,
                  user_id |-> transaction.UserID],
     src     |-> i]

\* Publisher.PublishProcessedTransaction: the kafka.Message built for the
\* processed transaction.  src is history: the offset of the consumed message.
PublishProcessedTransaction(transaction, i) ==
    [key     |-> transaction.AccountID,
     value   |-> transaction,
     headers |-> [idempotency_key |-> transaction.IdempotencyKey,
                  user_id |-> transaction.UserID],
     src     |-> i]

----------------------------------------------------------------------------
(* storage-service: consumer, handler, storage *)

\* TransactionHandler.Handle: json.Unmarshal of a processed message into the
\* storage service's models.ProcessedTransaction, which has no field for the
\* account or the idempotency key.  src is history: the position of the
\* message in processed.
Handle(message, j) ==
    [id |-> message.value.ID, user_id |-> message.value.UserID,
     amount |-> message.value.Amount, is_valid |-> message.value.IsValid,
     src |-> j]

\* Storage.SaveProcessedTransaction: INSERT ... ON CONFLICT (id) DO UPDATE.
SaveProcessedTransaction(tx) ==
    { row \in db : row.id # tx.id } \cup {tx}

----------------------------------------------------------------------------
(* alert-service: consumer, handler, notifier *)

\* A message of the input topic that is not JSON.
Garbage == [kind |-> "garbage"]

\* json.Marshal of a processed transaction, as PublishProcessedTransaction
\* puts it on the topic.
Event(transaction) == [kind |-> "json", value |-> transaction]

\* Processed events of the three statuses: an approved one, a flagged one
\* (late at night, at a gambling merchant) and a rejected one (blocked
\* country).
ProcessedEvents ==
    { ProcessedTransaction(t, 0) :
        t \in { GoodRaw,
                [GoodRaw EXCEPT !.Hour = 23, !.Merchant = "online gambling"],
                [GoodRaw EXCEPT !.Metadata = [country |-> "XX"]] } }

\* What the input topic can hold.
TopicMessages == {Garbage} \cup { Event(e) : e \in ProcessedEvents }

\* The values SLACK_WEBHOOK is configured with: unset (the default) or a URL.
WebhookURLs == {"", "https://hooks.example/services/T"}

\* What the webhook can answer to a POST: 200, another status, or nothing
\* (the transport fails).
Replies == {"200", "500", "transport error"}

\* json.Unmarshal of a processed event into models.Alert: "id", "type" and
\* "user_id" are the keys the two have in common; the event has no
\* "severity", "message" or "transaction_id".
Alert(value) ==
    [ID |-> value.ID, Type |-> value.Type, Severity |-> "", Message |-> "",
     TransactionID |-> "", UserID |-> value.UserID]

\* The result of handling a message: the error returned, if any, and the
\* POSTs made.
Handled(err, made) == [err |-> err, posts |-> made]

\* Notifier.sendSlackNotification: without a webhook URL an error and no
\* request; otherwise one POST, and an error unless the reply is 200.  src
\* is history: the offset of the message.
sendSlackNotification(url, message, src, reply) ==
    IF url = ""
    THEN Handled("slack webhook URL not configured", <<>>)
    ELSE Handled(IF reply = "200" THEN "" ELSE reply,
                 <<[url |-> url, text |-> message, src |-> src,
                    reply |-> reply]>>)

\* Notifier.SendAlert: the text is made of severity, type and message, and
\* of transaction ID and user ID when they are not empty.
SendAlert(url, alert, src, reply) ==
    sendSlackNotification(url,
        [Severity |-> alert.Severity, Type |-> alert.Type,
         Message |-> alert.Message, Transaction |-> alert.TransactionID,
         User |-> alert.UserID],
        src, reply)

\* AlertHandler.Handle: decode the message and send the alert.
HandleAlert(url, message, src, reply) ==
    IF message.kind # "json"
    THEN Handled("unmarshal error", <<>>)
    ELSE SendAlert(url, Alert(message.value), src, reply)

----------------------------------------------------------------------------
(* State *)

IdleReq ==
    [pc |-> "idle", ep |-> "single", key |-> "",
     token |-> [kind |-> "none", roles |-> {}, acct |-> ""],
     body |-> [kind |-> "bad"],
     status |-> 0, replay |-> FALSE, resp |-> NoBody,
     msgs |-> {}, got |-> "none", put |-> "none", after |-> {},
     cancelled |-> "no"]

\* The gateway and the consumers behind it before the first request.
InitServices ==
    /\ now = 0
    /\ store = [k \in Keys \cup {""} |-> NoEntry]
    /\ reqs = [r \in Req |-> IdleReq]
    /\ sent = <<>>
    /\ inflight = {}
    /\ log = <<>>
    /\ lost = {}
    /\ faults = 0
    /\ offset = 0
    /\ running = {}
    /\ processed = <<>>
    /\ saved = 0
    /\ db = {}

\* No transaction at the processor.
NoTransaction == [ID |-> NoID]

\* Amounts on both sides of every amount the processor compares with.
RawAmounts ==
    {-5, 0, 50, HighAmount, HighAmount + 1, AmountLimit, AmountLimit + 1}

\* Hours (time.Time.Hour) on both sides of the late-night limits.
Hours == {0, LateUntil, LateUntil + 1, LateFrom - 1, LateFrom, 23}

Currencies == ValidCurrencies \cup {"", "usd", "JPY"}
Types == ValidTypes \cup {"", "payment"}
Countries == {NoCountry, "US", "XX", "YY"}

\* Raw transactions that differ from GoodRaw in the fields validation reads.
ValidationInputs ==
    { [GoodRaw EXCEPT !.AccountID = a, !.UserID = u, !.Amount = m,
                      !.Currency = c, !.Type = ty] :
        a \in {"", "A"}, u \in {"", "U"}, m \in RawAmounts,
        c \in Currencies, ty \in Types }

\* Raw transactions that differ from GoodRaw in the risk factors.
RiskInputs ==
    { [GoodRaw EXCEPT !.Amount = m, !.Hour = h, !.Merchant = me,
                      !.Metadata = [country |-> c]] :
        m \in {a \in RawAmounts : a > 0 /\ a <= AmountLimit},
        h \in Hours, me \in Merchants, c \in Countries }

RawTransactions == ValidationInputs \cup RiskInputs

InitScoring ==
    /\ raw = NoTransaction
    /\ outcomes = <<>>

\* The alert service without a webhook and with an empty topic.
InitAlerting ==
    /\ webhookURL = ""
    /\ topic = <<>>
    /\ delivered = 0
    /\ posts = <<>>
    /\ errlog = <<>>

Init == InitServices /\ InitScoring /\ InitAlerting

\* SpecAlert starts with the alert service configured with or without a
\* webhook.
InitForwarder ==
    /\ InitServices
    /\ InitScoring
    /\ webhookURL \in WebhookURLs
    /\ topic = <<>>
    /\ delivered = 0
    /\ posts = <<>>
    /\ errlog = <<>>

\* SpecScoring starts with a raw transaction at the processor.
InitProcessor ==
    /\ InitServices
    /\ raw \in RawTransactions
    /\ outcomes = <<>>
    /\ InitAlerting

\* Clock readings of n successive time.Now() calls starting at t.
Readings(t, n) ==
    { ts \in [1..n -> t..MaxTime] :
        /\ ts[1] = t
        /\ \A i \in 1..(n-1) : ts[i+1] \in {ts[i], ts[i] + 1} }

\* Number of generateTransactionID calls the handler makes for the request.
NumIDs(q) == IF q.ep = "batch" /\ q.body.kind = "list" /\ Len(q.body.items) > 0
             THEN Len(q.body.items) ELSE 1

----------------------------------------------------------------------------
(* Actions *)

\* A fault may be injected while the budget lasts.
Fault(failed) == faults' = faults + (IF failed THEN 1 ELSE 0)

\* A client sends request q as request r; it reaches
\* IdempotencyMiddleware.Wrap.  after records which requests had been
\* answered by then (history).
Send(r, q) ==
    /\ reqs[r].pc = "idle"
    /\ reqs' = [reqs EXCEPT ![r] =
                   [IdleReq EXCEPT !.pc = "lookup", !.ep = q.ep, !.key = q.key,
                                   !.token = q.token, !.body = q.body,
                                   !.after = {p \in Req : reqs[p].pc = "done"}]]
    /\ UNCHANGED <<now, store, sent, inflight, log, lost, faults>>
    /\ UNCHANGED downstream

\* Spec: the requests are sent in the order of their numbers.
Arrive(r, q) ==
    /\ \A p \in Req : p < r => reqs[p].pc # "idle"
    /\ Send(r, q)

\* SpecRoutes: the requests are sent in any order.
ArriveRoute(r, q) ==
    /\ q.ep = RouteOf(r)
    /\ Send(r, q)

\* What the lookup of key meets in the store (history).
Found(key, getok) ==
    IF ~getok THEN "err"
    ELSE IF store[key] = NoEntry THEN "miss"
    ELSE IF now < store[key].expires THEN "hit" ELSE "expired"

\* Mutant of WrapBefore: the Idempotency-Key header is not checked.
WrapBefore_NoHeaderCheck(q, getok) ==
    LET cachedResponse == IF getok THEN GetIdempotencyKey(q.key) ELSE Nil
        seen == [q EXCEPT !.got = Found(q.key, getok)]
    IN IF cachedResponse # Nil
       THEN [seen EXCEPT !.pc = "done", !.status = StatusOK, !.replay = TRUE,
                         !.resp = UnmarshalResponse(cachedResponse)]
       ELSE [seen EXCEPT !.pc = "serve"]

\* Mutant of WrapBefore: a failed lookup is answered with a server error.
WrapBefore_FailClosed(q, getok) ==
    IF q.key = ""
    THEN [q EXCEPT !.pc = "done", !.status = StatusBadRequest,
                   !.resp = TextBody("Idempotency-Key header required")]
    ELSE LET cachedResponse == IF getok THEN GetIdempotencyKey(q.key) ELSE Nil
             seen == [q EXCEPT !.got = Found(q.key, getok)]
         IN IF ~getok
            THEN [seen EXCEPT !.pc = "done",
                              !.status = StatusInternalServerError,
                              !.resp = TextBody("idempotency store unavailable")]
            ELSE IF cachedResponse # Nil
            THEN [seen EXCEPT !.pc = "done", !.status = StatusOK,
                              !.replay = TRUE,
                              !.resp = UnmarshalResponse(cachedResponse)]
            ELSE [seen EXCEPT !.pc = "serve"]

\* Mutant of WrapBefore: the batch route does not look at the records.
WrapBefore_SingleRouteOnly(q, getok) ==
    IF q.key = ""
    THEN [q EXCEPT !.pc = "done", !.status = StatusBadRequest,
                   !.resp = TextBody("Idempotency-Key header required")]
    ELSE LET cachedResponse == IF getok THEN GetIdempotencyKey(q.key) ELSE Nil
             seen == [q EXCEPT !.got = Found(q.key, getok)]
         IN IF cachedResponse # Nil /\ q.ep = "single"
            THEN [seen EXCEPT !.pc = "done", !.status = StatusOK,
                              !.replay = TRUE,
                              !.resp = UnmarshalResponse(cachedResponse)]
            ELSE [seen EXCEPT !.pc = "serve"]

\* IdempotencyMiddleware.Wrap up to the call of next, for request q: the
\* header check, the store lookup (getok: Redis answered) and the replay of
\* a cached response.  Yields the request as Wrap leaves it.
WrapBefore(q, getok) ==
    IF q.key = ""
    THEN [q EXCEPT !.pc = "done", !.status = StatusBadRequest,
                   !.resp = TextBody("Idempotency-Key header required")]
    ELSE LET cachedResponse == IF getok THEN GetIdempotencyKey(q.key) ELSE Nil
             seen == [q EXCEPT !.got = Found(q.key, getok)]
         IN IF cachedResponse # Nil
            THEN [seen EXCEPT !.pc = "done", !.status = StatusOK,
                              !.replay = TRUE,
                              !.resp = UnmarshalResponse(cachedResponse)]
            ELSE [seen EXCEPT !.pc = "serve"]

\* r.Context().Err() # nil: the request context has been cancelled.  A Redis
\* command issued with a cancelled context fails without reaching the store.
CtxErr(q) == q.cancelled # "no"

\* Request r runs IdempotencyMiddleware.Wrap up to the call of next.
Lookup(r, getok) ==
    /\ reqs[r].pc = "lookup"
    /\ CtxErr(reqs[r]) /\ reqs[r].key # "" => ~getok
    /\ ~getok => reqs[r].key # "" /\ (CtxErr(reqs[r]) \/ faults < MaxFaults)
    /\ Fault(~getok /\ ~CtxErr(reqs[r]))
    /\ reqs' = [reqs EXCEPT ![r] = WrapBefore(reqs[r], getok)]
    /\ UNCHANGED <<now, store, sent, inflight, log, lost>>
    /\ UNCHANGED downstream

\* next.ServeHTTP(recorder, r): authentication, role check and handler.
\* ts are the clock readings of the handler, werr: WriteMessages fails.
Serve(r, werr) ==
    \E ts \in Readings(now, NumIDs(reqs[r])) :
    LET q   == reqs[r]
        res == Next_ServeHTTP(r, q, ts, werr)
        n   == Len(sent)
        m   == Len(res.out)
    IN /\ q.pc = "serve"
       /\ werr => faults < MaxFaults /\ res.status = StatusInternalServerError
       /\ Fault(werr)
       /\ now' = ts[Len(ts)]
       /\ sent' = sent \o res.out
       /\ inflight' = inflight \cup ((n+1)..(n+m))
       /\ reqs' = [reqs EXCEPT ![r].pc = "cache", ![r].status = res.status,
                               ![r].resp = res.body,
                               ![r].msgs = (n+1)..(n+m)]
       /\ UNCHANGED <<store, log, lost>>
       /\ UNCHANGED downstream

\* Mutant of CacheWrite: every reply is cached, whatever its status.
CacheWrite_AnyStatus(r, setok) ==
    LET q == reqs[r] IN
    /\ q.pc = "cache"
    /\ ~setok => faults < MaxFaults
    /\ Fault(~setok)
    /\ store' = IF setok
                THEN SetIdempotencyKey(q.key, CachedResponse(q.resp), TTL)
                ELSE store
    /\ reqs' = [reqs EXCEPT ![r].pc = "done",
                            ![r].put = IF setok THEN "ok" ELSE "err"]
    /\ UNCHANGED <<now, sent, inflight, log, lost>>
    /\ UNCHANGED downstream

\* Mutant of CacheWrite: a failed store write turns the reply into a server
\* error.
CacheWrite_FailsRequest(r, setok) ==
    LET q == reqs[r] IN
    /\ q.pc = "cache"
    /\ ~setok => faults < MaxFaults /\ q.status >= 200 /\ q.status < 300
    /\ Fault(~setok)
    /\ IF q.status >= 200 /\ q.status < 300
       THEN /\ store' = IF setok
                        THEN SetIdempotencyKey(q.key, CachedResponse(q.resp), TTL)
                        ELSE store
            /\ reqs' = [reqs EXCEPT ![r].pc = "done",
                          ![r].put = IF setok THEN "ok" ELSE "err",
                          ![r].status = IF setok THEN q.status
                                        ELSE StatusInternalServerError,
                          ![r].resp = IF setok THEN q.resp
                                      ELSE TextBody("failed to cache response")]
       ELSE /\ store' = store
            /\ reqs' = [reqs EXCEPT ![r].pc = "done"]
    /\ UNCHANGED <<now, sent, inflight, log, lost>>
    /\ UNCHANGED downstream

\* IdempotencyMiddleware.Wrap after next returned: a 2xx reply is cached
\* (setok: Redis accepted the write).
CacheWrite(r, setok) ==
    LET q == reqs[r] IN
    /\ q.pc = "cache"
    /\ CtxErr(q) /\ q.status >= 200 /\ q.status < 300 => ~setok
    /\ ~setok => /\ q.status >= 200 /\ q.status < 300
                 /\ CtxErr(q) \/ faults < MaxFaults
    /\ Fault(~setok /\ ~CtxErr(q))
    /\ IF q.status >= 200 /\ q.status < 300
       THEN /\ store' = IF setok
                        THEN SetIdempotencyKey(q.key, CachedResponse(q.resp), TTL)
                        ELSE store
            /\ reqs' = [reqs EXCEPT ![r].pc = "done",
                                    ![r].put = IF setok THEN "ok" ELSE "err"]
       ELSE /\ store' = store
            /\ reqs' = [reqs EXCEPT ![r].pc = "done"]
    /\ UNCHANGED <<now, sent, inflight, log, lost>>
    /\ UNCHANGED downstream

\* The asynchronous writer sends the messages of one partition in the order
\* WriteMessages took them: message i is next when no older message with its
\* partition key is still in flight.
Oldest(i) == \A j \in inflight : sent[j].key = sent[i].key => i <= j

\* The broker acknowledges message i of the asynchronous writer.
Ack(i) ==
    /\ i \in inflight
    /\ Oldest(i)
    /\ inflight' = inflight \ {i}
    /\ log' = Append(log, sent[i])
    /\ UNCHANGED <<now, store, reqs, sent, lost, faults>>
    /\ UNCHANGED downstream

\* Delivery of message i fails; the asynchronous writer drops the error.
Fail(i) ==
    /\ i \in inflight
    /\ Oldest(i)
    /\ faults < MaxFaults
    /\ Fault(TRUE)
    /\ inflight' = inflight \ {i}
    /\ lost' = lost \cup {i}
    /\ UNCHANGED <<now, store, reqs, sent, log>>
    /\ UNCHANGED downstream

\* The client of request r disconnects while the request is being handled:
\* net/http cancels r.Context().  The handler chain runs on.  cancelled
\* keeps the position the request was at (history).
Cancel(r) ==
    /\ reqs[r].pc \in {"lookup", "serve", "cache"}
    /\ reqs[r].cancelled = "no"
    /\ reqs' = [reqs EXCEPT ![r].cancelled = reqs[r].pc]
    /\ UNCHANGED <<now, store, sent, inflight, log, lost, faults>>
    /\ UNCHANGED downstream

\* Messages on the input topic of the processing service: one that is not
\* JSON, one whose transaction has no ID, and one as the gateway publishes it.
\* src tells them apart (history).
TopicEvents ==
    { [key |-> "A", value |-> [garbage |-> TRUE],
       headers |-> [idempotency_key |-> "", user_id |-> ""],
       req |-> 0, pos |-> 1] }
    \cup { Publish(Transaction(GoodItem, id), 0) : id \in {NoID, "txn_0"} }

\* A producer puts a message on the input topic of the processing service.
Produce(message) ==
    /\ Len(log) < MaxEvents
    /\ log' = Append(log, message)
    /\ UNCHANGED <<now, store, reqs, sent, inflight, lost, faults>>
    /\ UNCHANGED downstream

\* context.WithTimeout(parent, d): a context that is live while its parent
\* is (the deadline is not modelled).
WithTimeout(parent) == parent

\* What calling the cancel function of a context makes of it.
Cancelled(ctx) == "cancelled"

\* The goroutine started for the message at offset i: it runs processMessage
\* with the context ctx.
Goroutine(i, ctx) == [offset |-> i, ctx |-> ctx]

\* The offsets whose goroutine has not ended.
Unfinished == { g.offset : g \in running }

\* A message value json.Unmarshal decodes into a models.RawTransaction.
Unmarshals(value) == "ID" \in DOMAIN value

\* One round of Consumer.Start of the processing service: ctx is shadowed by
\* the read context, ReadMessage returns the next message of the topic (and
\* commits its offset in the consumer group), cancel() is called, and the
\* goroutine started for the message captures the shadowed ctx.
ReadMessage ==
    LET ctx == WithTimeout("live") IN
    /\ offset < Len(log)
    /\ offset' = offset + 1
    /\ running' = running \cup {Goroutine(offset + 1, Cancelled(ctx))}
    /\ UNCHANGED <<now, store, reqs, sent, inflight, log, lost, faults>>
    /\ UNCHANGED <<processed, saved, db>>
    /\ UNCHANGED <<scoring, alerting>>

\* Mutant of processMessage: a message without transaction ID is processed
\* like any other.
processMessage_NoIDCheck(i, wok) ==
    LET rawTxn == RawTransaction(log[i].value) IN
    /\ i \in Unfinished
    /\ running' = { g \in running : g.offset # i }
    /\ processed' =
          IF Unmarshals(log[i].value) /\ wok
          THEN Append(processed,
                      PublishProcessedTransaction(ProcessTransaction(rawTxn), i))
          ELSE processed
    /\ UNCHANGED <<now, store, reqs, sent, inflight, log, lost, faults>>
    /\ UNCHANGED <<offset, saved, db>>
    /\ UNCHANGED <<scoring, alerting>>

\* The goroutine of message i runs Consumer.processMessage: it decodes the
\* message, skips it when it has no transaction ID, and otherwise has it
\* processed and published.  wok: WriteMessages, which is called with the
\* context the consumer loop has already cancelled, takes the message.
processMessage(i, wok) ==
    LET rawTxn == RawTransaction(log[i].value) IN
    /\ i \in Unfinished
    /\ running' = { g \in running : g.offset # i }
    /\ processed' =
          IF Unmarshals(log[i].value) /\ rawTxn.ID # NoID /\ wok
          THEN Append(processed,
                      PublishProcessedTransaction(ProcessTransaction(rawTxn), i))
          ELSE processed
    /\ UNCHANGED <<now, store, reqs, sent, inflight, log, lost, faults>>
    /\ UNCHANGED <<offset, saved, db>>
    /\ UNCHANGED <<scoring, alerting>>

\* Consumer.Start of the storage service reads the next processed message
\* and hands it to the handler.  dbok: the database executes the statement;
\* otherwise the error is logged and the consumer goes on.
Store(dbok) ==
    /\ saved < Len(processed)
    /\ ~dbok => faults < MaxFaults
    /\ Fault(~dbok)
    /\ saved' = saved + 1
    /\ db' = IF dbok
             THEN SaveProcessedTransaction(Handle(processed[saved + 1], saved + 1))
             ELSE db
    /\ UNCHANGED <<now, store, reqs, sent, inflight, log, lost>>
    /\ UNCHANGED <<offset, running, processed>>
    /\ UNCHANGED <<scoring, alerting>>

\* Processor.ProcessTransaction is called on the raw transaction (the
\* event is delivered once more) and hands the processed transaction to the
\* publisher; randomRisk is the random component the call draws.
Process(randomRisk) ==
    /\ raw # NoTransaction
    /\ Len(outcomes) < MaxRuns
    /\ outcomes' = Append(outcomes, ProcessedTransaction(raw, randomRisk))
    /\ UNCHANGED <<raw, gateway, pipeline, alerting>>

\* A message arrives on the input topic of the alert service.
PublishEvent(message) ==
    /\ Len(topic) < MaxEvents
    /\ topic' = Append(topic, message)
    /\ UNCHANGED <<webhookURL, delivered, posts, errlog>>
    /\ UNCHANGED <<gateway, pipeline, scoring>>

\* Mutant of Deliver: a message whose handling failed is read again.
Deliver_RetryOnError(reply) ==
    LET src == delivered + 1
        res == HandleAlert(webhookURL, topic[src], src, reply)
    IN  /\ delivered < Len(topic)
        /\ Len(errlog) < MaxEvents
        /\ delivered' = IF res.err # "" THEN delivered ELSE src
        /\ posts' = posts \o res.posts
        /\ errlog' = IF res.err # "" THEN Append(errlog, src) ELSE errlog
        /\ UNCHANGED <<webhookURL, topic>>
        /\ UNCHANGED <<gateway, pipeline, scoring>>

\* One round of Consumer.Start of the alert service: ReadMessage returns the
\* next message (and commits its offset), the handler is called, and an
\* error it returns is logged.  reply is the webhook's answer if asked.
Deliver(reply) ==
    LET src == delivered + 1
        res == HandleAlert(webhookURL, topic[src], src, reply)
    IN  /\ delivered < Len(topic)
        /\ delivered' = src
        /\ posts' = posts \o res.posts
        /\ errlog' = IF res.err # "" THEN Append(errlog, src) ELSE errlog
        /\ UNCHANGED <<webhookURL, topic>>
        /\ UNCHANGED <<gateway, pipeline, scoring>>

\* Time passes.
Tick ==
    /\ now < MaxTime
    /\ now' = now + 1
    /\ UNCHANGED <<store, reqs, sent, inflight, log, lost, faults>>
    /\ UNCHANGED downstream

Next ==
    \/ \E r \in Req, q \in Inputs : Arrive(r, q)
    \/ \E r \in Req, getok \in BOOLEAN : Lookup(r, getok)
    \/ \E r \in Req, werr \in BOOLEAN : Serve(r, werr)
    \/ \E r \in Req, setok \in BOOLEAN : CacheWrite(r, setok)
    \/ \E i \in Offsets : Ack(i)
    \/ \E i \in Offsets : Fail(i)
    \/ Tick

Spec == Init /\ [][Next]_vars

NextRoutes ==
    \/ \E r \in Req, q \in AllInputs : ArriveRoute(r, q)
    \/ \E r \in Req, getok \in BOOLEAN : Lookup(r, getok)
    \/ \E r \in Req, werr \in BOOLEAN : Serve(r, werr)
    \/ \E r \in Req, setok \in BOOLEAN : CacheWrite(r, setok)
    \/ \E i \in Offsets : Ack(i)
    \/ \E i \in Offsets : Fail(i)
    \/ Tick

SpecRoutes == Init /\ [][NextRoutes]_vars

\* SpecBatch: request 1 is a batch request.
ArriveBatch(q) ==
    /\ q.ep = "batch"
    /\ Send(1, q)

NextBatch ==
    \/ \E q \in ScenarioInputs : ArriveBatch(q)
    \/ \E r \in Req, getok \in BOOLEAN : Lookup(r, getok)
    \/ \E r \in Req, werr \in BOOLEAN : Serve(r, werr)
    \/ \E r \in Req, setok \in BOOLEAN : CacheWrite(r, setok)
    \/ \E i \in Offsets : Ack(i)
    \/ \E i \in Offsets : Fail(i)
    \/ Tick

SpecBatch == Init /\ [][NextBatch]_vars

\* SpecPipeline: the gateway with the processing and the storage service
\* behind it.
NextPipeline ==
    \/ \E r \in Req, q \in PipelineInputs : Arrive(r, q)
    \/ \E r \in Req, getok \in BOOLEAN : Lookup(r, getok)
    \/ \E r \in Req, werr \in BOOLEAN : Serve(r, werr)
    \/ \E r \in Req, setok \in BOOLEAN : CacheWrite(r, setok)
    \/ \E i \in Offsets : Ack(i)
    \/ \E i \in Offsets : Fail(i)
    \/ ReadMessage
    \/ \E i \in Offsets, wok \in BOOLEAN : processMessage(i, wok)
    \/ \E dbok \in BOOLEAN : Store(dbok)
    \/ Tick

SpecPipeline == Init /\ [][NextPipeline]_vars

\* SpecProcessing: the processing service behind a gateway whose Redis,
\* response writes and broker do not fail.
NextProcessing ==
    \/ \E r \in Req, q \in PipelineInputs : Arrive(r, q)
    \/ \E r \in Req : Lookup(r, TRUE)
    \/ \E r \in Req : Serve(r, FALSE)
    \/ \E r \in Req : CacheWrite(r, TRUE)
    \/ \E i \in Offsets : Ack(i)
    \/ ReadMessage
    \/ \E i \in Offsets, wok \in BOOLEAN : processMessage(i, wok)

SpecProcessing == Init /\ [][NextProcessing]_vars

\* SpecScoring: the processor is handed one raw transaction, repeatedly.
NextScoring ==
    \E randomRisk \in RandomRisk : Process(randomRisk)

SpecScoring == InitProcessor /\ [][NextScoring]_vars

\* SpecAlert: the alert service and its input topic.
NextAlert ==
    \/ \E message \in TopicMessages : PublishEvent(message)
    \/ \E reply \in Replies : Deliver(reply)

SpecAlert == InitForwarder /\ [][NextAlert]_vars

\* SpecConsumer: the processing consumer on a topic any producer writes to.
NextConsumer ==
    \/ \E message \in TopicEvents : Produce(message)
    \/ ReadMessage
    \/ \E i \in Offsets, wok \in BOOLEAN : processMessage(i, wok)

SpecConsumer == Init /\ [][NextConsumer]_vars

\* SpecCancel: as Spec, and clients may disconnect.
NextCancel ==
    \/ \E r \in Req, q \in Inputs : Arrive(r, q)
    \/ \E r \in Req, getok \in BOOLEAN : Lookup(r, getok)
    \/ \E r \in Req, werr \in BOOLEAN : Serve(r, werr)
    \/ \E r \in Req, setok \in BOOLEAN : CacheWrite(r, setok)
    \/ \E r \in Req : Cancel(r)
    \/ \E i \in Offsets : Ack(i)
    \/ \E i \in Offsets : Fail(i)
    \/ Tick

SpecCancel == Init /\ [][NextCancel]_vars

----------------------------------------------------------------------------
(* Vocabulary of the properties *)

Arrived(r)  == reqs[r].pc # "idle"
Done(r)     == reqs[r].pc = "done"
Single(r)   == Arrived(r) /\ reqs[r].ep = "single"

\* No Redis read, no Redis write and no publish happened for request r.
Untouched(r) == reqs[r].got = "none" /\ reqs[r].put = "none" /\ reqs[r].msgs = {}

ClientError(r) == reqs[r].status >= 400 /\ reqs[r].status < 500

\* Messages handed to the producer while serving a request that carried key k.
PublishedFor(k) == { i \in 1..Len(sent) : reqs[sent[i].req].key = k }

\* The broker has acknowledged message i.
Acked(i) == i \notin inflight /\ i \notin lost

\* r2 is a retry of r1 in sequence: both on the single route with the same
\* key, r1 accepted and answered before r2 was sent, Redis took r1's write
\* and answered r2's read, the record had not expired, and no other request
\* carries the key.
Retry(r1, r2) ==
    /\ r1 # r2 /\ Single(r1) /\ Single(r2)
    /\ Done(r1) /\ Done(r2) /\ r1 \in reqs[r2].after
    /\ reqs[r1].key # "" /\ reqs[r1].key = reqs[r2].key
    /\ reqs[r1].status = StatusAccepted /\ reqs[r1].put = "ok"
    /\ reqs[r2].got \notin {"err", "expired"}
    /\ \A r3 \in Req \ {r1, r2} : Arrived(r3) => reqs[r3].key # reqs[r1].key

\* The decoded submission message i was built from.
SubmissionOf(i) ==
    LET q == reqs[sent[i].req] IN
    IF q.ep = "single" THEN q.body.item ELSE q.body.items[sent[i].pos]

----------------------------------------------------------------------------
(* C1 *)

----------------------------------------------------------------------------
(* C2 *)

Unauthorized(r) ==
    \/ reqs[r].token.kind # "valid"
    \/ ~HasAnyRole(reqs[r].token, RequiredRoles(reqs[r].ep))

\* C2: a request without a valid token or without a required role is refused
\* with 401/403 without any store read or write and without a publish, and
\* never receives a cached response.
C2_RolesBeforeLookup ==
    \A r \in Req :
        Arrived(r) /\ Unauthorized(r) =>
            /\ Untouched(r)
            /\ ~reqs[r].replay
            /\ Done(r) => reqs[r].status \in {StatusUnauthorized, StatusForbidden}

----------------------------------------------------------------------------
(* C3 *)

\* C3: a submission with amount <= 0 is rejected with a client error and
\* handling it touches neither the store nor the Event Log.
C3_NonPositiveAmountRejected ==
    \A r \in Req :
        Single(r) /\ reqs[r].body.kind = "obj" /\ reqs[r].body.item.amount <= 0 =>
            /\ Untouched(r)
            /\ Done(r) => ClientError(r)

----------------------------------------------------------------------------
(* C4 *)

\* The publish of request r failed: WriteMessages returned an error, or the
\* delivery of one of its messages failed.
PublishFailed(r) ==
    \/ reqs[r].resp \in { TextBody("failed to enqueue transaction"),
                          TextBody("failed to enqueue batch") }
    \/ \E i \in reqs[r].msgs : i \in lost

\* C4: when the publish fails the endpoint answers with a server error and
\* writes no idempotency record.
C4_FailedPublishNotCached ==
    \A r \in Req :
        Single(r) /\ Done(r) /\ PublishFailed(r) =>
            /\ reqs[r].status = StatusInternalServerError
            /\ reqs[r].put = "none"

----------------------------------------------------------------------------
(* C5 *)

\* C5: a cached record exists only for an event the broker has acknowledged.
C5_CachedOnlyAfterAck ==
    \A k \in Keys : \A i \in PublishedFor(k) :
        ( /\ store[k] # NoEntry
          /\ UnmarshalResponse(store[k].data).id = sent[i].value.ID )
        => Acked(i)

----------------------------------------------------------------------------
(* C6 *)

\* C6: every message the gateway publishes, on the single and on the batch
\* route, has the account identifier of its submission as partition key,
\* not the idempotency key and not the transaction ID; two submissions of
\* one account with different idempotency keys get the same partition key.
C6_PartitionByAccount ==
    /\ \A i \in 1..Len(sent) :
          /\ sent[i].key = SubmissionOf(i).account_id
          /\ sent[i].key # reqs[sent[i].req].key
          /\ sent[i].key # sent[i].value.IdempotencyKey
          /\ sent[i].key # sent[i].value.ID
    /\ \A i, j \in 1..Len(sent) :
          ( /\ SubmissionOf(i).account_id = SubmissionOf(j).account_id
            /\ reqs[sent[i].req].key # reqs[sent[j].req].key )
          => sent[i].key = sent[j].key

C6_Witness ==
    \E i, j \in 1..Len(sent) :
        /\ reqs[sent[i].req].ep = "single" /\ reqs[sent[j].req].ep = "batch"
        /\ reqs[sent[i].req].key # reqs[sent[j].req].key
        /\ SubmissionOf(i).account_id = SubmissionOf(j).account_id
        /\ sent[i].key = sent[j].key

----------------------------------------------------------------------------
(* C7 *)

\* Requests r1 and r2 both published for the same key.
BothPublished(r1, r2) ==
    /\ r1 # r2 /\ Single(r1) /\ Single(r2)
    /\ reqs[r1].key = reqs[r2].key
    /\ reqs[r1].msgs # {} /\ reqs[r2].msgs # {}

\* C7: two submissions with one idempotency key can both miss the cache and
\* both publish (the witness); two events for one key arise only so, or
\* from a failed store access or an expired record: never from a retry that
\* was sent after the first submission was answered and cached.
C7_DuplicatesOnlyByRace ==
    \A r1, r2 \in Req :
        BothPublished(r1, r2) /\ r1 \in reqs[r2].after =>
            \/ reqs[r1].put # "ok"
            \/ reqs[r2].got \in {"err", "expired"}

C7_Witness ==
    \E r1, r2 \in Req :
        /\ BothPublished(r1, r2)
        /\ reqs[r1].got = "miss" /\ reqs[r2].got = "miss"
        /\ r1 \notin reqs[r2].after /\ r2 \notin reqs[r1].after
        /\ \E i \in reqs[r1].msgs, j \in reqs[r2].msgs :
              sent[i].value.ID # sent[j].value.ID

----------------------------------------------------------------------------
(* C8 *)

\* C8: a replayed response carries the transaction ID and the status of the
\* first response.
C8_ReplaySameIdAndStatus ==
    \A r1, r2 \in Req :
        Retry(r1, r2) /\ reqs[r2].replay =>
            /\ reqs[r2].resp.id = reqs[r1].resp.id
            /\ reqs[r2].resp.status = reqs[r1].resp.status

----------------------------------------------------------------------------
(* C9 *)

----------------------------------------------------------------------------
(* C10 *)

\* C10: a submission without account ID or user ID is rejected with a client
\* error before any store read or write, and nothing is published for it.
C10_RequiredFieldsBeforeStore ==
    \A r \in Req :
        ( /\ Single(r) /\ reqs[r].body.kind = "obj"
          /\ (reqs[r].body.item.account_id = "" \/ reqs[r].body.item.user_id = "") )
        => /\ Untouched(r)
           /\ Done(r) => ClientError(r)

----------------------------------------------------------------------------
(* C11 *)

\* The request passes authentication, the role check and the handler's
\* validation: only a publish error can keep it from being accepted.
Acceptable(r) ==
    /\ ~Unauthorized(r)
    /\ IF reqs[r].ep = "single"
       THEN /\ reqs[r].body.kind = "obj"
            /\ reqs[r].body.item.idempotency_key # ""
            /\ reqs[r].body.item.account_id # ""
            /\ reqs[r].body.item.user_id # ""
       ELSE /\ reqs[r].body.kind = "list"
            /\ Len(reqs[r].body.items) > 0

\* WriteMessages returned an error while request r was served.
WriteFailed(r) ==
    reqs[r].resp \in { TextBody("failed to enqueue transaction"),
                       TextBody("failed to enqueue batch") }

\* r1 ended in an error response and r2, with the same key, was sent after
\* r1 was answered.
FailedThenRetried(r1, r2) ==
    /\ r1 # r2 /\ Arrived(r2)
    /\ Done(r1) /\ reqs[r1].status >= 400 /\ r1 \in reqs[r2].after
    /\ reqs[r1].key # "" /\ reqs[r1].key = reqs[r2].key

\* C11: after a submission with key K ended in an error response, the next
\* submission with key K is not answered from the cache: its lookup finds no
\* record, it goes through authentication and validation again, and when it
\* passes them (and WriteMessages does not fail) it is accepted and published.
C11_FailuresNotSuppressed ==
    \A r1, r2 \in Req :
        FailedThenRetried(r1, r2) =>
            /\ reqs[r1].put = "none"
            /\ ~reqs[r2].replay
            /\ reqs[r2].got \in {"none", "miss", "err"}
            /\ Done(r2) /\ Acceptable(r2) /\ ~WriteFailed(r2) =>
                  /\ reqs[r2].status = StatusAccepted
                  /\ reqs[r2].msgs # {}

C11_Witness ==
    \E r1, r2 \in Req :
        /\ FailedThenRetried(r1, r2) /\ Done(r2)
        /\ reqs[r1].status = StatusInternalServerError
        /\ reqs[r2].got = "miss"
        /\ reqs[r2].status = StatusAccepted /\ reqs[r2].msgs # {}

----------------------------------------------------------------------------
(* C12 *)

\* r2 resubmits r1: the same request, sent after r1 was accepted, answered
\* and recorded in the store.
Resubmitted(r1, r2) ==
    /\ r1 # r2 /\ Arrived(r2)
    /\ Done(r1) /\ r1 \in reqs[r2].after
    /\ reqs[r1].status = StatusAccepted /\ reqs[r1].put = "ok"
    /\ reqs[r1].key # "" /\ reqs[r2].key = reqs[r1].key
    /\ reqs[r2].ep = reqs[r1].ep /\ reqs[r2].token = reqs[r1].token
    /\ reqs[r2].body = reqs[r1].body

\* C12: a resubmission whose lookup meets a record of TTL age or older is
\* not a replay: it is served again, and unless WriteMessages fails it is
\* accepted, published and gets a transaction ID different from the first;
\* a resubmission whose lookup meets a younger record is a replay with the
\* first ID and publishes nothing.
C12_ExpiredRecordAbsent ==
    \A r1, r2 \in Req :
        Resubmitted(r1, r2) =>
            /\ reqs[r2].got # "miss"
            /\ reqs[r2].got = "expired" =>
                  /\ ~reqs[r2].replay
                  /\ Done(r2) /\ ~WriteFailed(r2) =>
                        /\ reqs[r2].status = StatusAccepted
                        /\ reqs[r2].msgs # {}
                        /\ reqs[r2].resp.id # NoID
                        /\ reqs[r2].resp.id # reqs[r1].resp.id
            /\ reqs[r2].got = "hit" =>
                  /\ reqs[r2].replay
                  /\ reqs[r2].msgs = {}
                  /\ reqs[r2].resp.id = reqs[r1].resp.id

C12_Witness ==
    \E r1, r2 \in Req :
        /\ Resubmitted(r1, r2) /\ Done(r2)
        /\ reqs[r2].got = "expired"
        /\ reqs[r2].status = StatusAccepted /\ reqs[r2].msgs # {}
        /\ reqs[r2].resp.id # reqs[r1].resp.id

----------------------------------------------------------------------------
(* C13 *)

\* C13: a request whose store lookup failed is handled as on a miss: it is
\* not a replay, it goes on to authentication and the handler, the only
\* server error it can get is that of a failed WriteMessages, and when it
\* passes authentication and validation (and WriteMessages does not fail)
\* it is accepted and published.
C13_LookupFailureIsMiss ==
    \A r \in Req :
        reqs[r].got = "err" =>
            /\ ~reqs[r].replay
            /\ reqs[r].pc \in {"serve", "cache", "done"}
            /\ Done(r) /\ reqs[r].status >= 500 => WriteFailed(r)
            /\ Done(r) /\ Acceptable(r) /\ ~WriteFailed(r) =>
                  /\ reqs[r].status = StatusAccepted
                  /\ reqs[r].resp.kind = "json"
                  /\ reqs[r].msgs # {}

C13_Witness ==
    \E r \in Req :
        /\ Done(r) /\ reqs[r].got = "err"
        /\ reqs[r].status = StatusAccepted /\ reqs[r].msgs # {}

----------------------------------------------------------------------------
(* C14 *)

\* Message i is on the topic.
OnLog(i) == \E j \in 1..Len(log) : log[j] = sent[i]

\* C14: when the store write of an accepted request fails, the caller still
\* has the 202 response with the transaction ID of the published event, and
\* the event stays where the producer put it: handed over, and on the topic
\* once acknowledged.
C14_CacheWriteFailureStillAccepted ==
    \A r \in Req :
        Single(r) /\ Done(r) /\ reqs[r].put = "err" =>
            /\ reqs[r].status = StatusAccepted
            /\ reqs[r].resp.kind = "json"
            /\ reqs[r].resp.status = "accepted"
            /\ reqs[r].msgs # {}
            /\ \A i \in reqs[r].msgs :
                  /\ i \in 1..Len(sent)
                  /\ sent[i].req = r
                  /\ sent[i].value.ID = reqs[r].resp.id
                  /\ Acked(i) => OnLog(i)

C14_Witness ==
    \E r \in Req :
        /\ Single(r) /\ Done(r) /\ reqs[r].put = "err"
        /\ reqs[r].status = StatusAccepted
        /\ \E i \in reqs[r].msgs : Acked(i) /\ OnLog(i)

----------------------------------------------------------------------------
(* C15 *)

\* C15: when the client of an accepted request disconnects after the handler
\* has handed the event to the producer, and neither Redis nor Kafka fails,
\* the request still ends with its idempotency record written.
C15_CancelledStillCached ==
    \A r \in Req :
        ( /\ Done(r) /\ reqs[r].cancelled = "cache" /\ faults = 0
          /\ reqs[r].status = StatusAccepted /\ reqs[r].msgs # {} )
        => /\ reqs[r].put = "ok"
           /\ store[reqs[r].key] # NoEntry

----------------------------------------------------------------------------
(* C16 *)

\* Requests r1 and r2 overlapped: neither was answered before the other was
\* sent.
Concurrent(r1, r2) ==
    /\ r1 # r2 /\ Arrived(r1) /\ Arrived(r2)
    /\ r1 \notin reqs[r2].after /\ r2 \notin reqs[r1].after

\* C16: two events the gateway built while serving concurrent requests, or
\* for two items of one batch, carry different transaction IDs.
C16_UniqueIDs ==
    \A i, j \in 1..Len(sent) :
        ( /\ i # j
          /\ \/ sent[i].req = sent[j].req
             \/ Concurrent(sent[i].req, sent[j].req) )
        => sent[i].value.ID # sent[j].value.ID

----------------------------------------------------------------------------
(* C17 *)

Batch(r) == Arrived(r) /\ reqs[r].ep = "batch"

\* The request carries a JSON list with at least one submission.
NonEmptyList(r) == reqs[r].body.kind = "list" /\ Len(reqs[r].body.items) > 0

\* The submission has the required fields and a positive amount.
ValidItem(it) ==
    /\ it.idempotency_key # "" /\ it.account_id # "" /\ it.user_id # ""
    /\ it.amount > 0

\* C17: an accepted batch publishes exactly its valid items and reports
\* their number as the accepted count: an item with a non-positive amount
\* is not published and not counted, the items around it are.  (That the
\* published items get distinct transaction IDs is C16.)
C17_BatchPerItem ==
    \A r \in Req :
        ( /\ Batch(r) /\ Done(r) /\ ~Unauthorized(r) /\ NonEmptyList(r)
          /\ ~reqs[r].replay /\ ~WriteFailed(r) )
        => LET its   == reqs[r].body.items
               valid == { i \in 1..Len(its) : ValidItem(its[i]) }
           IN /\ { sent[i].pos : i \in reqs[r].msgs } = valid
              /\ reqs[r].resp.kind = "json"
              /\ reqs[r].resp.count = Cardinality(valid)

----------------------------------------------------------------------------
(* C18 *)

----------------------------------------------------------------------------
(* C19 *)

\* C19: processed events of one account are published in the order in which
\* the processing consumer read the events they were made from.
C19_ProcessingKeepsAccountOrder ==
    \A i, j \in 1..Len(processed) :
        ( /\ i < j
          /\ processed[i].value.AccountID = processed[j].value.AccountID )
        => processed[i].src < processed[j].src

----------------------------------------------------------------------------
(* C20 *)

\* The rows the storage service made from events with idempotency key k.
RowsFor(k) == { row \in db : processed[row.src].value.IdempotencyKey = k }

\* C20: the storage stage holds at most one transaction per idempotency key.
C20_OneRowPerKey ==
    \A k \in Keys : Cardinality(RowsFor(k)) <= 1

----------------------------------------------------------------------------
(* C21 *)

\* The request carries a valid token without the admin role and names an
\* account other than the one in the token.
ForeignAccount(r) ==
    /\ Single(r) /\ reqs[r].token.kind = "valid"
    /\ ~HasRole(reqs[r].token, "admin")
    /\ reqs[r].body.kind = "obj"
    /\ reqs[r].body.item.account_id # reqs[r].token.acct

\* C21: a submission by a caller without the admin role that names an
\* account other than the caller's is not published, and is refused with
\* a client error.
C21_AccountIsolation ==
    \A r \in Req :
        ForeignAccount(r) /\ ~reqs[r].replay =>
            /\ reqs[r].msgs = {}
            /\ Done(r) => ClientError(r)

----------------------------------------------------------------------------
(* C22 *)

\* C22: a request to the submission route without a bearer token is answered
\* with 401, with or without an Idempotency-Key header.
C22_NoTokenUnauthorized ==
    \A r \in Req :
        Single(r) /\ Done(r) /\ reqs[r].token.kind = "none" /\ ~reqs[r].replay =>
            reqs[r].status = StatusUnauthorized

----------------------------------------------------------------------------
(* C23 *)

\* The accepted event the processed message processed[j] was made from.
SourceOf(j) == RawTransaction(log[processed[j].src].value)

----------------------------------------------------------------------------
(* C24 *)

\* C24: processing the same transaction twice yields the same risk score,
\* the same risk level and the same final status.
C24_RiskDeterministic ==
    \A i, j \in 1..Len(outcomes) :
        /\ outcomes[i].RiskScore = outcomes[j].RiskScore
        /\ outcomes[i].RiskLevel = outcomes[j].RiskLevel
        /\ outcomes[i].Status = outcomes[j].Status

----------------------------------------------------------------------------
(* C27 *)

\* The validation rules the raw transaction t violates.
ViolatedRules(t) ==
    {rule \in {"account", "user", "positive", "limit", "currency", "type"} :
        \/ rule = "account"  /\ t.AccountID = ""
        \/ rule = "user"     /\ t.UserID = ""
        \/ rule = "positive" /\ ~(0 < t.Amount)
        \/ rule = "limit"    /\ ~(t.Amount <= 100000)
        \/ rule = "currency" /\
              t.Currency \notin {"USD", "EUR", "GBP", "INR", "CAD", "AUD"}
        \/ rule = "type" /\
              t.Type \notin {"purchase", "transfer", "withdrawal",
                             "deposit", "refund"}}

\* C27: a processed transaction is marked valid if and only if the raw
\* transaction violates no validation rule (account and user non-empty,
\* 0 < amount <= 100000, a listed currency, a listed type), and an invalid
\* one has one error per violated rule.
C27_ValidIffRulesHold ==
    \A i \in 1..Len(outcomes) :
        /\ outcomes[i].IsValid <=> ViolatedRules(raw) = {}
        /\ validateTransaction(raw).IsValid = outcomes[i].IsValid
        /\ Len(validateTransaction(raw).Errors) = Cardinality(ViolatedRules(raw))
        /\ ~outcomes[i].IsValid =>
              Len(outcomes[i].RejectionReason) = Cardinality(ViolatedRules(raw))

\* A transaction that violates five rules at once has been processed.
C27_Witness ==
    /\ Len(outcomes) > 0
    /\ ~outcomes[1].IsValid
    /\ Cardinality(ViolatedRules(raw)) = 5

----------------------------------------------------------------------------
(* C28 *)

\* C28: the processed event of a raw transaction that fails validation has
\* status rejected, is neither valid nor approved, has a rejection reason,
\* and carries no enrichment and no risk assessment.
C28_InvalidRejectedUnassessed ==
    \A i \in 1..Len(outcomes) :
        ~validateTransaction(raw).IsValid =>
            /\ outcomes[i].Status = "rejected"
            /\ ~outcomes[i].IsValid
            /\ ~outcomes[i].IsApproved
            /\ outcomes[i].RejectionReason # <<>>
            /\ outcomes[i].RiskScore = 0
            /\ outcomes[i].RiskLevel = ""
            /\ outcomes[i].Country = NoCountry

\* A transaction that fails validation has been processed.
C28_Witness ==
    /\ Len(outcomes) > 0
    /\ ~validateTransaction(raw).IsValid
    /\ outcomes[1].Status = "rejected"

----------------------------------------------------------------------------
(* C29 *)

\* C29: every processed event has status approved, rejected or flagged, and
\* its status is approved or flagged if and only if it is approved.
C29_StatusMatchesApproval ==
    \A i \in 1..Len(outcomes) :
        /\ outcomes[i].Status \in {"approved", "rejected", "flagged"}
        /\ outcomes[i].Status \in {"approved", "flagged"}
               <=> outcomes[i].IsApproved

\* A valid transaction has been approved and flagged.
C29_Witness ==
    /\ Len(outcomes) > 0
    /\ outcomes[1].IsValid
    /\ outcomes[1].Status = "flagged"
    /\ outcomes[1].IsApproved

----------------------------------------------------------------------------
(* C30 *)

\* The raw transaction passes validation and its metadata name a blocked
\* country.
FromBlockedCountry ==
    /\ raw # NoTransaction
    /\ validateTransaction(raw).IsValid
    /\ raw.Metadata.country \in {"XX", "YY"}

\* C30: a valid transaction from a blocked country is rejected, whatever the
\* other risk factors and the random component are.
C30_BlockedCountryRejected ==
    \A i \in 1..Len(outcomes) :
        FromBlockedCountry =>
            /\ outcomes[i].Status = "rejected"
            /\ ~outcomes[i].IsApproved

\* A transaction from a blocked country has been rejected once by the rule
\* for blocked countries and once by its score alone.
C30_Witness ==
    /\ FromBlockedCountry
    /\ \E i \in 1..Len(outcomes) :
          outcomes[i].RejectionReason = <<"Blocked country or merchant">>
    /\ \E i \in 1..Len(outcomes) :
          outcomes[i].RejectionReason =
              <<"High risk score - automatic rejection">>

----------------------------------------------------------------------------
(* C25 *)

\* The message at offset j of the alert topic is a flagged processed event.
Flagged(j) ==
    /\ topic[j].kind = "json"
    /\ topic[j].value.Status = "flagged"

\* C25: every notification POST is made for a flagged processed event.
C25_OnlyFlaggedNotified ==
    \A i \in 1..Len(posts) : Flagged(posts[i].src)

----------------------------------------------------------------------------
(* C26 *)

\* The POSTs made for the message at offset j.
PostsFor(j) == { i \in 1..Len(posts) : posts[i].src = j }

\* The notification for the message at offset j failed: the message could
\* not be decoded, no webhook is configured, or the POST did not get a 200.
NotificationFailed(j) ==
    \/ topic[j].kind # "json"
    \/ webhookURL = ""
    \/ \E i \in PostsFor(j) : posts[i].reply # "200"

\* C26: every message is handed to the handler once, in order; a failed
\* notification is logged once and not retried; and every decodable message
\* is forwarded when a webhook is configured, whatever happened to the
\* messages before it.
C26_FailureLoggedNotRetried ==
    /\ delivered <= Len(topic)
    /\ \A j \in 1..delivered :
          /\ Cardinality(PostsFor(j)) <= 1
          /\ Cardinality({ i \in 1..Len(errlog) : errlog[i] = j })
                = IF NotificationFailed(j) THEN 1 ELSE 0
          /\ (topic[j].kind = "json" /\ webhookURL # "")
                => PostsFor(j) # {}
    /\ \A i \in 1..Len(posts) : posts[i].src \in 1..delivered
    /\ \A i, k \in 1..Len(posts) : i < k => posts[i].src < posts[k].src
    /\ \A i, k \in 1..Len(errlog) : i < k => errlog[i] < errlog[k]

\* The first message could not be decoded, the POST for the second failed,
\* and the third was forwarded and answered with 200.
C26_Witness ==
    /\ delivered = 3
    /\ topic[1].kind # "json"
    /\ \E i \in PostsFor(2) : posts[i].reply # "200"
    /\ \E i \in PostsFor(3) : posts[i].reply = "200"
    /\ errlog = <<1, 2>>

----------------------------------------------------------------------------
(* C31 *)

\* C31: a processed event with risk level critical has status rejected.
C31_CriticalRejected ==
    \A i \in 1..Len(outcomes) :
        outcomes[i].RiskLevel = "critical" =>
            /\ outcomes[i].Status = "rejected"
            /\ ~outcomes[i].IsApproved

\* A transaction scored exactly 0.8 is critical, is not rejected for its
\* score, and is rejected for its country.
C31_Witness ==
    \E i \in 1..Len(outcomes) :
        /\ outcomes[i].RiskScore = 800
        /\ outcomes[i].RiskLevel = "critical"
        /\ outcomes[i].Status = "rejected"
        /\ outcomes[i].RejectionReason = <<"Blocked country or merchant">>

----------------------------------------------------------------------------
(* C32 *)

\* The sum of the weights of the risk factors the raw transaction triggers,
\* in thousandths.
TriggeredWeights ==
    (IF raw.Amount > 10000 THEN 300 ELSE 0)
  + (IF raw.Hour >= 22 \/ raw.Hour <= 6 THEN 200 ELSE 0)
  + (IF raw.Metadata.country \in {"XX", "YY"} THEN 500 ELSE 0)
  + (IF raw.Merchant \in {"Crypto Exchange", "online gambling"}
     THEN 400 ELSE 0)

\* The smaller of two numbers.
Min(a, b) == IF a < b THEN a ELSE b

----------------------------------------------------------------------------
(* C33 *)

\* C33: an accepted event the processing consumer has read, and whose
\* goroutine has ended, has a processed event on the output topic.
C33_ReadEventProcessed ==
    \A i \in 1..offset :
        i \notin Unfinished => \E j \in 1..Len(processed) : processed[j].src = i

----------------------------------------------------------------------------
(* C34 *)

\* C34: the context a goroutine of the processing consumer runs
\* processMessage with is live.
C34_ContextLive ==
    \A g \in running : g.ctx = "live"

----------------------------------------------------------------------------
(* C35 *)

\* C35: no processed event is published for a message that cannot be
\* decoded or whose transaction has no ID.
C35_UndecodableAndNoIDSkipped ==
    \A j \in 1..Len(processed) :
        /\ Unmarshals(log[processed[j].src].value)
        /\ log[processed[j].src].value.ID # NoID

\* An undecodable message and one without ID have been handled, and the
\* message after them has been processed and published.
C35_Witness ==
    /\ offset = 3 /\ running = {}
    /\ ~Unmarshals(log[1].value)
    /\ Unmarshals(log[2].value) /\ log[2].value.ID = NoID
    /\ \E j \in 1..Len(processed) : processed[j].src = 3

----------------------------------------------------------------------------
(* C36 *)

\* The transaction ID in the idempotency record of key k.
StoredID(k) == UnmarshalResponse(store[k].data).id

\* C36: the transaction ID in the idempotency record of a key is the ID of
\* an event handed to the producer while serving a request that carried the
\* key.
C36_RecordedIDWasPublished ==
    \A k \in Keys :
        store[k] # NoEntry =>
            \E i \in PublishedFor(k) : sent[i].value.ID = StoredID(k)

----------------------------------------------------------------------------
(* C37 *)

\* C37: the idempotency key of a published event, in the payload and in the
\* idempotency_key header, is the Idempotency-Key header of the request it
\* was published for, the key the record is looked up and cached under.
C37_EventKeyIsHeaderKey ==
    \A i \in 1..Len(sent) :
        /\ sent[i].value.IdempotencyKey = reqs[sent[i].req].key
        /\ sent[i].headers.idempotency_key = reqs[sent[i].req].key

----------------------------------------------------------------------------
(* C38 *)

\* The lookup of request r met an unexpired record of its key.
MetRecord(r) == Arrived(r) /\ reqs[r].got = "hit"

====
